---- MODULE Spec2Model ----
(***************************************************************************)
(* A model of the mongoload / loadbot workload engine.                     *)
(*                                                                         *)
(*  - The engine driver (package mongoload): New, Torment, cancel, worker, *)
(*    performSingleOperation.  One goroutine per configured connection     *)
(*    runs the loop SpawnJob -> Take -> operation -> MarkJobDone; Torment  *)
(*    waits for them on a sync.WaitGroup.                                  *)
(*  - The job pool (package worker) and the rate limiter (package rps)     *)
(*    are used by the driver through their interfaces only; their bodies   *)
(*    are modelled from the written contract of the interface.             *)
(*  - The agent (package lbot): Lbot.Run executes the configured jobs one  *)
(*    after another, Lbot.Cancel cancels the workers it knows about.       *)
(*                                                                         *)
(* Time is a discrete clock `now`; one Tick is one second of the limiter.  *)
(***************************************************************************)
EXTENDS Integers, Sequences, FiniteSets, TLC

\* ------------------------------------------------------------------ bounds
MaxOps == 2
MaxConns == 2
MaxTime == 3
MaxJobs == 2

\* the inputs of New that are drawn from fixed small sets
Rates == {0, 1}
Durations == {0, 2}

Workers == 1..MaxConns

\* the jobs of the agent's configuration, in configuration order, and the
\* schemas they may name
Jobs == 1..MaxJobs
Schemas == {"s1", "s2"}

VARIABLES
  \* ---- the engine (struct mongoload)
  concurrentConnections,  \* ml.concurrentConnections
  rateLimit,              \* ml.rateLimit
  operationsAmount,       \* ml.operationsAmount
  duration,               \* ml.duration
  pool,                   \* ml.pool: the job pool
  rateLimiter,            \* ml.rateLimiter
  wg,                     \* ml.wg: the counter of the sync.WaitGroup
  \* ---- goroutines
  mainpc,                 \* where the goroutine that calls Torment is
  pc,                     \* pc[w]: where worker goroutine w is
  handlerpc,              \* the interrupt goroutine started by Torment
  interruptChan,          \* number of signals buffered in interruptChan (cap 1)
  now,                    \* the clock
  \* ---- history (what has happened so far; read by the properties only)
  spawned,                \* number of SpawnJob calls that returned true
  performed,              \* number of operations that returned
  lastOk,                 \* lastOk[w]: result of the operation worker w just ran
  takeCancelled,          \* takeCancelled[w]: w's Take returned after cancel()
  requestsDoneRead,       \* what Torment read from GetRequestsDone, -1 before
  newArgs,                \* the arguments New was called with
  cancelCalls,            \* number of calls of ml.cancel()
  \* ---- a job handler (package driver)
  jobType,                \* cfg.Type of the job
  jobTemplate,            \* cfg.GetTemplateSchema() of the job
  handler,                \* what NewJobHandler returned, NoHandler before
  clientCalls,            \* the database-client calls made by Handle, in order
  returned,               \* the pairs returned by Handle, in order
  \* ---- one run of the command line (package cli)
  cliCommand,             \* the workload command given on the command line
  cliFlags,               \* its flags: progress, config-file, stdin
  Conn,                   \* the package-level *grpc.ClientConn
  clipc,                  \* where cobra is in the execution of the command
  workloadCall,           \* the workload call RunE made and the Conn it passed
  \* ---- a second call of Torment on the same engine
  handler2pc,             \* the interrupt goroutine started by the second call
  interruptChan2,         \* signals buffered in the second call's channel
  \* ---- the agent (struct Lbot) and what Lbot.Run creates
  jobSchema,              \* l.config.Jobs[j].Schema
  workers,                \* l.workers: the jobs whose *driver.Worker it holds
  dworker,                \* dworker[j]: the driver.Worker made for job j
  dataPools,              \* dataPools[s]: the side-table of schema s's DataPool
  runpc,                  \* where the goroutine that calls Lbot.Run is
  runJob,                 \* the job of the current iteration of Run's loop
  cancelpc,               \* where the goroutine that calls Lbot.Cancel is
  cancelRange             \* the workers Cancel's range loop has still to visit

engineVars == <<concurrentConnections, rateLimit, operationsAmount, duration,
                pool, rateLimiter, wg>>
procVars == <<mainpc, pc, handlerpc, interruptChan, now>>
histVars == <<spawned, performed, lastOk, takeCancelled, requestsDoneRead>>
againVars == <<handler2pc, interruptChan2>>
lbotVars == <<jobSchema, workers, dworker, dataPools, runpc, runJob,
              cancelpc, cancelRange>>
driverVars == <<jobType, jobTemplate, handler, clientCalls, returned>>
cliVars == <<cliCommand, cliFlags, Conn, clipc, workloadCall>>
vars == <<engineVars, procVars, histVars, newArgs, cancelCalls, againVars,
          lbotVars, driverVars, cliVars>>

\* ------------------------------------------------- worker.JobPool (contract)
\* The three policies behind one interface.
NewNoLimitTimerJobPool ==
  [kind |-> "nolimit", requestsToDo |-> 0, start |-> 0, duration |-> 0,
   requestsDone |-> 0, cancelled |-> FALSE]

NewTimerJobPool(d, t) ==
  [kind |-> "timer", requestsToDo |-> 0, start |-> t, duration |-> d,
   requestsDone |-> 0, cancelled |-> FALSE]

NewDeductionJobPool(k) ==
  [kind |-> "deduction", requestsToDo |-> k, start |-> 0, duration |-> 0,
   requestsDone |-> 0, cancelled |-> FALSE]

\* The policy's limit: the count is used up, or the duration has elapsed.
LimitReached(p, t) ==
  CASE p.kind = "deduction" -> p.requestsToDo = 0
    [] p.kind = "timer"     -> t - p.start >= p.duration
    [] OTHER                -> FALSE

\* SpawnJob's answer when called on pool p at time t.
SpawnJobResult(p, t) == ~p.cancelled /\ ~LimitReached(p, t)

\* SpawnJob's effect: a granted call of a count-bounded pool takes one unit of
\* the remaining count, atomically with the test.
SpawnJobPool(p, t) ==
  IF p.kind = "deduction" /\ SpawnJobResult(p, t)
  THEN [p EXCEPT !.requestsToDo = @ - 1]
  ELSE p

MarkJobDone(p) == [p EXCEPT !.requestsDone = @ + 1]

Cancel(p) == [p EXCEPT !.cancelled = TRUE]

GetRequestsDone(p) == p.requestsDone

\* ---------------------------------------------------- rps.Limiter (contract)
NewNoLimitLimiter == [kind |-> "nolimit", rate |-> 0, granted |-> 0]

NewSimpleLimiter(r) == [kind |-> "simple", rate |-> r, granted |-> 0]

\* Take returns now: always for NoLimit, and for the shared pacer while fewer
\* than `rate` calls were granted in the current second.
TakePermitted(l) == l.kind = "nolimit" \/ l.granted < l.rate

Take(l) == IF l.kind = "nolimit" THEN l ELSE [l EXCEPT !.granted = @ + 1]

\* a new second begins
Refill(l) == [l EXCEPT !.granted = 0]

\* ------------------------------------------------- driver.Worker (contract)
\* The worker of one job: its engine state as far as the agent can see it.
\*   state     none | created | failed | working | drained | closed
\*   active    worker goroutines of Work that have not exited
\*   remaining operations the job's count-bounded pool still grants
\*   saved     the values of the fields marked for reuse that it produced
\*   seen      the values of the side-table its operations have read
NoWorker ==
  [state |-> "none", active |-> 0, remaining |-> 0, cancelled |-> FALSE,
   summarized |-> FALSE, saved |-> {}, seen |-> {}]

\* driver.NewWorker(ctx, cfg, job, dataPool)
NewWorker(ok) ==
  [NoWorker EXCEPT !.state = IF ok THEN "created" ELSE "failed",
                   !.remaining = IF ok THEN MaxOps ELSE 0]

\* the i-th value job j produces for a saved field
SavedValue(j, i) == <<j, i>>

\* ------------------------------------------------------- driver.NewJobHandler
\* the job types of package config, and two values that are none of them
Write == "write"
BulkWrite == "bulk_write"
Read == "read"
Update == "update"
JobTypes == {Write, BulkWrite, Read, Update, "", "drop"}

\* no handler has been constructed yet
NoHandler == [variant |-> "none", provider |-> "none"]

\* the panic of NewJobHandler: no handler value comes back
Panic == [variant |-> "panic", provider |-> "none"]

\* schema.NewDataProvider(template)
NewDataProvider(template) == template

\* (variant: an unknown type falls back to the single-insert handler)
NewJobHandlerDefaultsToWrite(cfg) ==
  CASE cfg.Type = Write ->
         [variant |-> "WriteHandler", provider |-> NewDataProvider(cfg.template)]
    [] cfg.Type = Read ->
         [variant |-> "ReadHandler", provider |-> NewDataProvider(cfg.template)]
    [] cfg.Type = Update ->
         [variant |-> "UpdateHandler", provider |-> NewDataProvider(cfg.template)]
    [] cfg.Type = BulkWrite ->
         [variant |-> "BulkWriteHandler",
          provider |-> NewDataProvider(cfg.template)]
    [] OTHER ->
         [variant |-> "WriteHandler", provider |-> NewDataProvider(cfg.template)]

NewJobHandler(cfg) ==
  CASE cfg.Type = Write ->
         [variant |-> "WriteHandler", provider |-> NewDataProvider(cfg.template)]
    [] cfg.Type = Read ->
         [variant |-> "ReadHandler", provider |-> NewDataProvider(cfg.template)]
    [] cfg.Type = Update ->
         [variant |-> "UpdateHandler", provider |-> NewDataProvider(cfg.template)]
    [] cfg.Type = BulkWrite ->
         [variant |-> "BulkWriteHandler",
          provider |-> NewDataProvider(cfg.template)]
    [] OTHER -> Panic

\* h.provider.GetBatch(100)
BatchSize == 100

\* the body of Handle of each variant: the provider calls that make the
\* arguments, in evaluation order, and the client call they are passed to
HandleBody(h) ==
  CASE h.variant = "WriteHandler" ->
         [call |-> "InsertOne", args |-> << <<"GetSingleItem">> >>]
    [] h.variant = "BulkWriteHandler" ->
         [call |-> "InsertMany", args |-> << <<"GetBatch", BatchSize>> >>]
    [] h.variant = "ReadHandler" ->
         [call |-> "ReadOne", args |-> << <<"GetFilter">> >>]
    [] h.variant = "UpdateHandler" ->
         [call |-> "UpdateOne",
          args |-> << <<"GetFilter">>, <<"GetSingleItem">> >>]

\* (variant: Handle reports the success and swallows the error)
HandleReturnSwallowsError(res) == <<res[1], "nil">>

\* `return h.client.<call>(...)`: Handle returns the client's pair as it is
HandleReturn(res) == res

\* the (bool, error) pairs a database-client call may return
ClientResults == {<<TRUE, "nil">>, <<FALSE, "nil">>, <<FALSE, "error">>}

\* the job's configuration is loaded, no handler is made yet
DriverIdle ==
  /\ handler = NoHandler
  /\ clientCalls = <<>>
  /\ returned = <<>>

\* ------------------------------------------------ cli: the workload commands
\* the commands provideWorkloadCommands returns; watchCommand is built but
\* not returned
RegisteredCommands == {"start", "stop", "config", "progress"}

\* the commands built with PersistentPreRunE and PersistentPostRun
HasPersistentHooks(c) == c \in {"start", "stop", "watch", "progress"}

NoCall == [fn |-> "none", conn |-> "none"]

\* the process has started; cobra has found the command and parsed its flags
CliStarted ==
  /\ Conn = "nil"
  /\ clipc = "prerun"
  /\ workloadCall = NoCall

\* no command line is being executed
CliIdle ==
  /\ cliCommand = "start"
  /\ cliFlags = [progress |-> FALSE, configFile |-> "", stdin |-> FALSE]
  /\ CliStarted

\* -------------------------------------------------------------- mongoload.New
\* if conns == 0 { conns = 100 }
DefaultConnections == 100

\* (variant: the wait group is armed for one worker fewer than are started)
NewAddsOneLess(ops, conns, rl, d, t) ==
  [pool |-> IF d = 0 /\ ops = 0 THEN NewNoLimitTimerJobPool
            ELSE IF d # 0 THEN NewTimerJobPool(d, t)
            ELSE NewDeductionJobPool(ops),
   duration |-> IF d # 0 THEN d ELSE 0,
   operationsAmount |-> IF d = 0 /\ ops # 0 THEN ops ELSE 0,
   rateLimit |-> rl,
   rateLimiter |-> IF rl = 0 THEN NewNoLimitLimiter ELSE NewSimpleLimiter(rl),
   concurrentConnections |-> IF conns = 0 THEN DefaultConnections ELSE conns,
   wg |-> (IF conns = 0 THEN DefaultConnections ELSE conns) - 1,
   error |-> "nil"]

\* (variant: the pacer is made before the rate is known, with rate 0)
NewLimiterBeforeRate(ops, conns, rl, d, t) ==
  [pool |-> IF d = 0 /\ ops = 0 THEN NewNoLimitTimerJobPool
            ELSE IF d # 0 THEN NewTimerJobPool(d, t)
            ELSE NewDeductionJobPool(ops),
   duration |-> IF d # 0 THEN d ELSE 0,
   operationsAmount |-> IF d = 0 /\ ops # 0 THEN ops ELSE 0,
   rateLimit |-> rl,
   rateLimiter |-> IF rl = 0 THEN NewNoLimitLimiter ELSE NewSimpleLimiter(0),
   concurrentConnections |-> IF conns = 0 THEN DefaultConnections ELSE conns,
   wg |-> IF conns = 0 THEN DefaultConnections ELSE conns,
   error |-> "nil"]

\* (variant: the pacer is made for the rate of every worker taken together)
NewRatePerWorker(ops, conns, rl, d, t) ==
  [pool |-> IF d = 0 /\ ops = 0 THEN NewNoLimitTimerJobPool
            ELSE IF d # 0 THEN NewTimerJobPool(d, t)
            ELSE NewDeductionJobPool(ops),
   duration |-> IF d # 0 THEN d ELSE 0,
   operationsAmount |-> IF d = 0 /\ ops # 0 THEN ops ELSE 0,
   rateLimit |-> rl,
   rateLimiter |-> IF rl = 0 THEN NewNoLimitLimiter
                   ELSE NewSimpleLimiter(rl * conns),
   concurrentConnections |-> IF conns = 0 THEN DefaultConnections ELSE conns,
   wg |-> IF conns = 0 THEN DefaultConnections ELSE conns,
   error |-> "nil"]

New(ops, conns, rl, d, t) ==
  [pool |-> IF d = 0 /\ ops = 0 THEN NewNoLimitTimerJobPool
            ELSE IF d # 0 THEN NewTimerJobPool(d, t)
            ELSE NewDeductionJobPool(ops),
   duration |-> IF d # 0 THEN d ELSE 0,
   operationsAmount |-> IF d = 0 /\ ops # 0 THEN ops ELSE 0,
   rateLimit |-> rl,
   rateLimiter |-> IF rl = 0 THEN NewNoLimitLimiter ELSE NewSimpleLimiter(rl),
   concurrentConnections |-> IF conns = 0 THEN DefaultConnections ELSE conns,
   wg |-> IF conns = 0 THEN DefaultConnections ELSE conns,
   error |-> "nil"]

\* NewLbot: no workers yet; Run has not been called
LbotIdle ==
  /\ workers = <<>>
  /\ dworker = [j \in Jobs |-> NoWorker]
  /\ dataPools = [s \in Schemas |-> {}]
  /\ runpc = "idle"
  /\ runJob = 1
  /\ cancelpc = "idle"
  /\ cancelRange = <<>>

\* the engine New(ops, conns, rl, d) returns, before Torment is called
EngineCreated(ops, conns, rl, d) ==
  LET load == New(ops, conns, rl, d, 0) IN
    /\ pool = load.pool
    /\ duration = load.duration
    /\ operationsAmount = load.operationsAmount
    /\ rateLimit = load.rateLimit
    /\ rateLimiter = load.rateLimiter
    /\ concurrentConnections = load.concurrentConnections
    /\ wg = load.wg
    /\ mainpc = "idle"
    /\ pc = [w \in Workers |-> "unborn"]
    /\ handlerpc = "none"
    /\ interruptChan = 0
    /\ now = 0
    /\ spawned = 0
    /\ performed = 0
    /\ lastOk = [w \in Workers |-> TRUE]
    /\ takeCancelled = [w \in Workers |-> FALSE]
    /\ requestsDoneRead = -1
    /\ newArgs = [ops |-> ops, conns |-> conns, rateLimit |-> rl, duration |-> d]
    /\ cancelCalls = 0
    /\ handler2pc = "none"
    /\ interruptChan2 = 0

\* what New returned for the arguments the engine was made with
NewResult ==
  New(newArgs.ops, newArgs.conns, newArgs.rateLimit, newArgs.duration, 0)

\* The runs of an engine made with one termination policy (no limit, a
\* duration, or a count) and an explicit number of connections.
Init ==
  \E ops \in 0..MaxOps, conns \in 1..MaxConns, rl \in Rates, d \in Durations :
    /\ d = 0 \/ ops = 0
    /\ EngineCreated(ops, conns, rl, d)
    /\ jobSchema = [j \in Jobs |-> "s1"]
    /\ LbotIdle
    /\ jobType = Write /\ jobTemplate = "s1" /\ DriverIdle
    /\ CliIdle

\* Every argument list of New: both termination policies at once, and a
\* connection count of 0, included.
InitAnyConfig ==
  \E ops \in 0..MaxOps, conns \in 0..MaxConns, rl \in Rates, d \in Durations :
    /\ EngineCreated(ops, conns, rl, d)
    /\ jobSchema = [j \in Jobs |-> "s1"]
    /\ LbotIdle
    /\ jobType = Write /\ jobTemplate = "s1" /\ DriverIdle
    /\ CliIdle

\* ---------------------------------------------------------- mongoload.Torment
\* Torment is called on the engine that New returned without an error:
\* signal.Notify and the start of the interrupt goroutine.  Runs of more than
\* MaxConns workers are not explored.
TormentStart ==
  /\ mainpc = "idle"
  /\ NewResult.error = "nil"
  /\ concurrentConnections <= MaxConns
  /\ mainpc' = "starting"
  /\ handlerpc' = "waiting"
  /\ UNCHANGED <<engineVars, pc, interruptChan, now, histVars>>
  /\ UNCHANGED <<newArgs, cancelCalls, againVars, lbotVars, driverVars,
                 cliVars>>

\* number of worker goroutines started so far (the loop variable i)
Started == Cardinality({w \in Workers : pc[w] # "unborn"})

\* (variant: the loop runs while i <= concurrentConnections)
TormentSpawnWorkerOneMore ==
  /\ mainpc = "starting"
  /\ Started <= concurrentConnections
  /\ Started < MaxConns
  /\ pc' = [pc EXCEPT ![Started + 1] = "spawn"]
  /\ UNCHANGED <<engineVars, mainpc, handlerpc, interruptChan, now, histVars>>
  /\ UNCHANGED <<newArgs, cancelCalls, againVars, lbotVars, driverVars,
                 cliVars>>

\* one iteration of `for i < concurrentConnections { go ml.worker() }`
TormentSpawnWorker ==
  /\ mainpc = "starting"
  /\ Started < concurrentConnections
  /\ pc' = [pc EXCEPT ![Started + 1] = "spawn"]
  /\ UNCHANGED <<engineVars, mainpc, handlerpc, interruptChan, now, histVars>>
  /\ UNCHANGED <<newArgs, cancelCalls, againVars, lbotVars, driverVars,
                 cliVars>>

\* the loop ends; ml.start = time.Now(); Torment enters ml.wg.Wait()
TormentWorkersStarted ==
  /\ mainpc = "starting"
  /\ Started >= concurrentConnections
  /\ mainpc' = "wait"
  /\ UNCHANGED <<engineVars, pc, handlerpc, interruptChan, now, histVars>>
  /\ UNCHANGED <<newArgs, cancelCalls, againVars, lbotVars, driverVars,
                 cliVars>>

\* (variant: Torment goes on without waiting for the counter)
TormentNoWait ==
  /\ mainpc = "wait"
  /\ mainpc' = "report"
  /\ UNCHANGED <<engineVars, pc, handlerpc, interruptChan, now, histVars>>
  /\ UNCHANGED <<newArgs, cancelCalls, againVars, lbotVars, driverVars,
                 cliVars>>

\* ml.wg.Wait() returns when the counter is zero
TormentWait ==
  /\ mainpc = "wait"
  /\ wg = 0
  /\ mainpc' = "report"
  /\ UNCHANGED <<engineVars, pc, handlerpc, interruptChan, now, histVars>>
  /\ UNCHANGED <<newArgs, cancelCalls, againVars, lbotVars, driverVars,
                 cliVars>>

\* requestsDone := ml.pool.GetRequestsDone(), and the statistics are printed
TormentReport ==
  /\ mainpc = "report"
  /\ requestsDoneRead' = GetRequestsDone(pool)
  /\ mainpc' = "done"
  /\ UNCHANGED <<engineVars, pc, handlerpc, interruptChan, now,
                 spawned, performed, lastOk, takeCancelled>>
  /\ UNCHANGED <<newArgs, cancelCalls, againVars, lbotVars, driverVars,
                 cliVars>>

\* ------------------------------------------------- interrupts, mongoload.cancel
\* the process receives os.Interrupt: signal.Notify does a non-blocking send
\* into the channel of capacity 1
Interrupt ==
  /\ handlerpc # "none"
  /\ interruptChan = 0 \/ (handler2pc # "none" /\ interruptChan2 = 0)
  /\ interruptChan' = 1
  /\ interruptChan2' = IF handler2pc # "none" THEN 1 ELSE interruptChan2
  /\ UNCHANGED <<engineVars, mainpc, pc, handlerpc, now, histVars>>
  /\ UNCHANGED <<newArgs, cancelCalls, handler2pc, lbotVars, driverVars,
                 cliVars>>

\* (variant: cancel prints and forgets to tell the pool)
cancelOnlyPrints ==
  /\ pool' = pool
  /\ cancelCalls' = cancelCalls + 1
  /\ UNCHANGED <<concurrentConnections, rateLimit, operationsAmount, duration,
                 rateLimiter, wg>>

cancel ==
  /\ pool' = Cancel(pool)
  /\ cancelCalls' = cancelCalls + 1
  /\ UNCHANGED <<concurrentConnections, rateLimit, operationsAmount, duration,
                 rateLimiter, wg>>

\* (variant: the goroutine receives in a loop and cancels on every signal)
InterruptHandlerLoops ==
  /\ handlerpc = "waiting"
  /\ interruptChan = 1
  /\ interruptChan' = 0
  /\ handlerpc' = "waiting"
  /\ cancel
  /\ UNCHANGED <<mainpc, pc, now, histVars>>
  /\ UNCHANGED <<newArgs, againVars, lbotVars, driverVars,
                 cliVars>>

\* go func() { <-interruptChan; ml.cancel() }()
InterruptHandler ==
  /\ handlerpc = "waiting"
  /\ interruptChan = 1
  /\ interruptChan' = 0
  /\ handlerpc' = "done"
  /\ cancel
  /\ UNCHANGED <<mainpc, pc, now, histVars>>
  /\ UNCHANGED <<newArgs, againVars, lbotVars, driverVars,
                 cliVars>>

\* ----------------------------------------------------------- mongoload.worker
\* `for ml.pool.SpawnJob()`: granted, the worker enters the loop body.  The
\* guard on `spawned` bounds the runs of the pools that have no count.
workerSpawnJobTrue(w) ==
  /\ pc[w] = "spawn"
  /\ SpawnJobResult(pool, now)
  /\ spawned < MaxOps
  /\ pool' = SpawnJobPool(pool, now)
  /\ pc' = [pc EXCEPT ![w] = "take"]
  /\ spawned' = spawned + 1
  /\ UNCHANGED <<concurrentConnections, rateLimit, operationsAmount, duration,
                 rateLimiter, wg, mainpc, handlerpc, interruptChan, now,
                 performed, lastOk, takeCancelled, requestsDoneRead>>
  /\ UNCHANGED <<newArgs, cancelCalls, againVars, lbotVars, driverVars,
                 cliVars>>

\* (variant: the worker returns without the deferred ml.wg.Done())
workerExitsWithoutDone(w) ==
  /\ pc[w] = "spawn"
  /\ ~SpawnJobResult(pool, now)
  /\ pool' = SpawnJobPool(pool, now)
  /\ pc' = [pc EXCEPT ![w] = "exited"]
  /\ UNCHANGED <<concurrentConnections, rateLimit, operationsAmount, duration,
                 rateLimiter, wg, mainpc, handlerpc, interruptChan, now, histVars>>
  /\ UNCHANGED <<newArgs, cancelCalls, againVars, lbotVars, driverVars,
                 cliVars>>

\* refused: the loop ends and the deferred ml.wg.Done() runs
workerSpawnJobFalse(w) ==
  /\ pc[w] = "spawn"
  /\ ~SpawnJobResult(pool, now)
  /\ pool' = SpawnJobPool(pool, now)
  /\ wg' = wg - 1
  /\ pc' = [pc EXCEPT ![w] = "exited"]
  /\ UNCHANGED <<concurrentConnections, rateLimit, operationsAmount, duration,
                 rateLimiter, mainpc, handlerpc, interruptChan, now, histVars>>
  /\ UNCHANGED <<newArgs, cancelCalls, againVars, lbotVars, driverVars,
                 cliVars>>

\* ml.rateLimiter.Take() returns
workerTake(w) ==
  /\ pc[w] = "take"
  /\ TakePermitted(rateLimiter)
  /\ rateLimiter' = Take(rateLimiter)
  /\ pc' = [pc EXCEPT ![w] = "perform"]
  /\ takeCancelled' = [takeCancelled EXCEPT ![w] = pool.cancelled]
  /\ UNCHANGED <<concurrentConnections, rateLimit, operationsAmount, duration,
                 pool, wg, mainpc, handlerpc, interruptChan, now,
                 spawned, performed, lastOk, requestsDoneRead>>
  /\ UNCHANGED <<newArgs, cancelCalls, againVars, lbotVars, driverVars,
                 cliVars>>

\* ml.performSingleOperation() is called: the operation is sent to the database
workerPerform(w) ==
  /\ pc[w] = "perform"
  /\ pc' = [pc EXCEPT ![w] = "inflight"]
  /\ UNCHANGED <<engineVars, mainpc, handlerpc, interruptChan, now, histVars>>
  /\ UNCHANGED <<newArgs, cancelCalls, againVars, lbotVars, driverVars,
                 cliVars>>

\* (variant: a failed operation ends the worker's iteration uncounted)
afterOperationSkipsFailed(ok) == IF ok THEN "mark" ELSE "spawn"

\* where the worker goes when its operation has returned `ok`: the result is
\* not looked at, MarkJobDone is next
afterOperation(ok) == "mark"

\* ml.db.InsertOneOrMany() returns (ok, err); the result is dropped by worker
performSingleOperation(w, ok) ==
  /\ pc[w] = "inflight"
  /\ pc' = [pc EXCEPT ![w] = afterOperation(ok)]
  /\ lastOk' = [lastOk EXCEPT ![w] = ok]
  /\ takeCancelled' = [takeCancelled EXCEPT ![w] = FALSE]
  /\ performed' = performed + 1
  /\ UNCHANGED <<engineVars, mainpc, handlerpc, interruptChan, now,
                 spawned, requestsDoneRead>>
  /\ UNCHANGED <<newArgs, cancelCalls, againVars, lbotVars, driverVars,
                 cliVars>>

\* (variant: the loop body has no MarkJobDone)
workerNoMarkJobDone(w) ==
  /\ pc[w] = "mark"
  /\ pc' = [pc EXCEPT ![w] = "spawn"]
  /\ lastOk' = [lastOk EXCEPT ![w] = TRUE]
  /\ UNCHANGED <<engineVars, mainpc, handlerpc, interruptChan, now,
                 spawned, performed, takeCancelled, requestsDoneRead>>
  /\ UNCHANGED <<newArgs, cancelCalls, againVars, lbotVars, driverVars,
                 cliVars>>

\* (variant: the loop body calls MarkJobDone twice)
workerMarkJobDoneTwice(w) ==
  /\ pc[w] = "mark"
  /\ pool' = MarkJobDone(MarkJobDone(pool))
  /\ pc' = [pc EXCEPT ![w] = "spawn"]
  /\ lastOk' = [lastOk EXCEPT ![w] = TRUE]
  /\ UNCHANGED <<concurrentConnections, rateLimit, operationsAmount, duration,
                 rateLimiter, wg, mainpc, handlerpc, interruptChan, now,
                 spawned, performed, takeCancelled, requestsDoneRead>>
  /\ UNCHANGED <<newArgs, cancelCalls, againVars, lbotVars, driverVars,
                 cliVars>>

\* (variant: SpawnJob is asked once, before a loop without a condition)
workerMarkJobDoneThenTake(w) ==
  /\ pc[w] = "mark"
  /\ pool' = MarkJobDone(pool)
  /\ pc' = [pc EXCEPT ![w] = "take"]
  /\ lastOk' = [lastOk EXCEPT ![w] = TRUE]
  /\ UNCHANGED <<concurrentConnections, rateLimit, operationsAmount, duration,
                 rateLimiter, wg, mainpc, handlerpc, interruptChan, now,
                 spawned, performed, takeCancelled, requestsDoneRead>>
  /\ UNCHANGED <<newArgs, cancelCalls, againVars, lbotVars, driverVars,
                 cliVars>>

\* ml.pool.MarkJobDone(), then back to the loop condition
workerMarkJobDone(w) ==
  /\ pc[w] = "mark"
  /\ pool' = MarkJobDone(pool)
  /\ pc' = [pc EXCEPT ![w] = "spawn"]
  /\ lastOk' = [lastOk EXCEPT ![w] = TRUE]
  /\ UNCHANGED <<concurrentConnections, rateLimit, operationsAmount, duration,
                 rateLimiter, wg, mainpc, handlerpc, interruptChan, now,
                 spawned, performed, takeCancelled, requestsDoneRead>>
  /\ UNCHANGED <<newArgs, cancelCalls, againVars, lbotVars, driverVars,
                 cliVars>>

\* ----------------------------------------------------------------- the clock
\* One second passes.  The clock stops counting at MaxTime, where every
\* later instant is the same to the model; the limiter's second still renews.
\* Once Torment has returned nothing reads the clock any more.
Tick ==
  /\ mainpc # "done"
  /\ now' = IF now < MaxTime THEN now + 1 ELSE now
  /\ rateLimiter' = Refill(rateLimiter)
  /\ UNCHANGED <<concurrentConnections, rateLimit, operationsAmount, duration,
                 pool, wg, mainpc, pc, handlerpc, interruptChan, histVars>>
  /\ UNCHANGED <<newArgs, cancelCalls, againVars, lbotVars, driverVars,
                 cliVars>>

Next ==
  \/ TormentStart
  \/ TormentSpawnWorker
  \/ TormentWorkersStarted
  \/ TormentWait
  \/ TormentReport
  \/ Interrupt
  \/ InterruptHandler
  \/ \E w \in Workers : workerSpawnJobTrue(w)
  \/ \E w \in Workers : workerSpawnJobFalse(w)
  \/ \E w \in Workers : workerTake(w)
  \/ \E w \in Workers : workerPerform(w)
  \/ \E w \in Workers, ok \in BOOLEAN : performSingleOperation(w, ok)
  \/ \E w \in Workers : workerMarkJobDone(w)
  \/ Tick

Spec == Init /\ [][Next]_vars

SpecAnyConfig == InitAnyConfig /\ [][Next]_vars

\* ------------------------------------------------- runs that never end
\* The same worker loop with the counters of the model no longer bounding the
\* run: from MaxOps on, the history counters and the pool's completed count
\* stay at MaxOps, so that a pool without a limit grants for ever.
UpTo(n) == IF n < MaxOps THEN n + 1 ELSE MaxOps

\* `for ml.pool.SpawnJob()`: granted
workerSpawnJobTrueEndless(w) ==
  /\ pc[w] = "spawn"
  /\ SpawnJobResult(pool, now)
  /\ pool' = SpawnJobPool(pool, now)
  /\ pc' = [pc EXCEPT ![w] = "take"]
  /\ spawned' = UpTo(spawned)
  /\ UNCHANGED <<concurrentConnections, rateLimit, operationsAmount, duration,
                 rateLimiter, wg, mainpc, handlerpc, interruptChan, now,
                 performed, lastOk, takeCancelled, requestsDoneRead>>
  /\ UNCHANGED <<newArgs, cancelCalls, againVars, lbotVars, driverVars,
                 cliVars>>

\* ml.db.InsertOneOrMany() returns (ok, err)
performSingleOperationEndless(w, ok) ==
  /\ pc[w] = "inflight"
  /\ pc' = [pc EXCEPT ![w] = afterOperation(ok)]
  /\ lastOk' = [lastOk EXCEPT ![w] = ok]
  /\ takeCancelled' = [takeCancelled EXCEPT ![w] = FALSE]
  /\ performed' = UpTo(performed)
  /\ UNCHANGED <<engineVars, mainpc, handlerpc, interruptChan, now,
                 spawned, requestsDoneRead>>
  /\ UNCHANGED <<newArgs, cancelCalls, againVars, lbotVars, driverVars,
                 cliVars>>

\* ml.pool.MarkJobDone(), then back to the loop condition
workerMarkJobDoneEndless(w) ==
  /\ pc[w] = "mark"
  /\ pool' = [pool EXCEPT !.requestsDone = UpTo(@)]
  /\ pc' = [pc EXCEPT ![w] = "spawn"]
  /\ lastOk' = [lastOk EXCEPT ![w] = TRUE]
  /\ UNCHANGED <<concurrentConnections, rateLimit, operationsAmount, duration,
                 rateLimiter, wg, mainpc, handlerpc, interruptChan, now,
                 spawned, performed, takeCancelled, requestsDoneRead>>
  /\ UNCHANGED <<newArgs, cancelCalls, againVars, lbotVars, driverVars,
                 cliVars>>

\* the engines with a rate limit and no limit of time or count, whose runs
\* end by an interrupt only
InitPaced ==
  \E conns \in 1..MaxConns, rl \in Rates \ {0} :
    /\ EngineCreated(0, conns, rl, 0)
    /\ jobSchema = [j \in Jobs |-> "s1"]
    /\ LbotIdle
    /\ jobType = Write /\ jobTemplate = "s1" /\ DriverIdle
    /\ CliIdle

NextEndless ==
  \/ TormentStart
  \/ TormentSpawnWorker
  \/ TormentWorkersStarted
  \/ TormentWait
  \/ TormentReport
  \/ Interrupt
  \/ InterruptHandler
  \/ \E w \in Workers : workerSpawnJobTrueEndless(w)
  \/ \E w \in Workers : workerSpawnJobFalse(w)
  \/ \E w \in Workers : workerTake(w)
  \/ \E w \in Workers : workerPerform(w)
  \/ \E w \in Workers, ok \in BOOLEAN : performSingleOperationEndless(w, ok)
  \/ \E w \in Workers : workerMarkJobDoneEndless(w)
  \/ Tick

\* The Go scheduler runs every runnable goroutine and the clock advances;
\* the limiter is starvation-free (its contract): a worker whose Take could
\* return again and again is not passed over for ever.
FairnessPaced ==
  /\ WF_vars(TormentStart)
  /\ WF_vars(TormentSpawnWorker)
  /\ WF_vars(TormentWorkersStarted)
  /\ WF_vars(TormentWait)
  /\ WF_vars(TormentReport)
  /\ WF_vars(InterruptHandler)
  /\ WF_vars(Tick)
  /\ \A w \in Workers :
       /\ WF_vars(workerSpawnJobTrueEndless(w))
       /\ WF_vars(workerSpawnJobFalse(w))
       /\ SF_vars(workerTake(w))
       /\ WF_vars(workerPerform(w))
       /\ WF_vars(\E ok \in BOOLEAN : performSingleOperationEndless(w, ok))
       /\ WF_vars(workerMarkJobDoneEndless(w))

SpecPaced == InitPaced /\ [][NextEndless]_vars /\ FairnessPaced

\* the same runs when the limiter promises nothing beyond the scheduler's
\* fairness
FairnessWeak ==
  /\ WF_vars(Tick)
  /\ \A w \in Workers :
       /\ WF_vars(workerSpawnJobTrueEndless(w))
       /\ WF_vars(workerTake(w))
       /\ WF_vars(workerPerform(w))
       /\ WF_vars(\E ok \in BOOLEAN : performSingleOperationEndless(w, ok))
       /\ WF_vars(workerMarkJobDoneEndless(w))

SpecPacedWeak == InitPaced /\ [][NextEndless]_vars /\ FairnessWeak

\* ------------------------------------- a second call of mongoload.Torment
\* Torment has no guard against being called again on the engine. The second
\* call makes its own channel and interrupt goroutine and restarts the loop
\* that spawns the workers at i = 0; the goroutines of the first call have
\* all exited when the first call returned.
TormentAgain ==
  /\ mainpc = "done"
  /\ handler2pc = "none"
  /\ mainpc' = "starting"
  /\ handler2pc' = "waiting"
  /\ pc' = [w \in Workers |-> "unborn"]
  /\ UNCHANGED <<engineVars, handlerpc, interruptChan, now, histVars>>
  /\ UNCHANGED <<newArgs, cancelCalls, interruptChan2, lbotVars, driverVars,
                 cliVars>>

\* the interrupt goroutine of the second call: <-interruptChan; ml.cancel()
InterruptHandlerAgain ==
  /\ handler2pc = "waiting"
  /\ interruptChan2 = 1
  /\ interruptChan2' = 0
  /\ handler2pc' = "done"
  /\ cancel
  /\ UNCHANGED <<mainpc, pc, now, histVars>>
  /\ UNCHANGED <<newArgs, handlerpc, interruptChan, lbotVars, driverVars,
                 cliVars>>

\* wg.Done() on a counter that is zero already stores the negative value and
\* panics ("sync: negative WaitGroup counter"): the process dies, while the
\* other goroutines may still take steps before it is gone.
ProcessDies ==
  /\ wg < 0
  /\ mainpc # "panicked"
  /\ mainpc' = "panicked"
  /\ pc' = [w \in Workers |-> "dead"]
  /\ handlerpc' = "none"
  /\ handler2pc' = "none"
  /\ UNCHANGED <<engineVars, interruptChan, now, histVars>>
  /\ UNCHANGED <<newArgs, cancelCalls, interruptChan2, lbotVars, driverVars,
                 cliVars>>

NextRestart ==
  \/ Next
  \/ TormentAgain
  \/ InterruptHandlerAgain
  \/ ProcessDies

SpecRestart == Init /\ [][NextRestart]_vars

\* ------------------------------------------------------------------ Lbot.Run
\* (variant: the saved fields are copied before Work is called)
stepAfterCopiesFirst(step) ==
  CASE step = "new"     -> "append"
    [] step = "append"  -> "check"
    [] step = "check"   -> "init"
    [] step = "init"    -> "copy"
    [] step = "copy"    -> "work"
    [] step = "work"    -> "summary"
    [] step = "summary" -> "close"
    [] step = "close"   -> "new"

\* (variant: Close is called, not deferred, before Summary)
stepAfterClosesEarly(step) ==
  CASE step = "new"     -> "append"
    [] step = "append"  -> "check"
    [] step = "check"   -> "init"
    [] step = "init"    -> "work"
    [] step = "work"    -> "close"
    [] step = "close"   -> "summary"
    [] step = "summary" -> "copy"
    [] step = "copy"    -> "new"

\* the order of the statements in one iteration of Run's loop over the jobs
stepAfter(step) ==
  CASE step = "new"     -> "append"
    [] step = "append"  -> "check"
    [] step = "check"   -> "init"
    [] step = "init"    -> "work"
    [] step = "work"    -> "summary"
    [] step = "summary" -> "copy"
    [] step = "copy"    -> "close"
    [] step = "close"   -> "new"

engineIdle ==
  UNCHANGED <<engineVars, procVars, histVars, newArgs, cancelCalls, againVars,
              driverVars, cliVars>>

\* Run is called; the data pools are made, one per schema
RunStart ==
  /\ runpc = "idle"
  /\ runpc' = "new"
  /\ runJob' = 1
  /\ dataPools' = [s \in Schemas |-> {}]
  /\ UNCHANGED <<jobSchema, workers, dworker, cancelpc, cancelRange>>
  /\ engineIdle

\* worker, error := driver.NewWorker(l.ctx, l.config, job, dataPool)
RunNewWorker(ok) ==
  /\ runpc = "new"
  /\ dworker' = [dworker EXCEPT ![runJob] = NewWorker(ok)]
  /\ runpc' = stepAfter("new")
  /\ UNCHANGED <<jobSchema, workers, dataPools, runJob, cancelpc, cancelRange>>
  /\ engineIdle

\* l.workers = append(l.workers, worker)
RunAppend ==
  /\ runpc = "append"
  /\ workers' = Append(workers, runJob)
  /\ runpc' = stepAfter("append")
  /\ UNCHANGED <<jobSchema, dworker, dataPools, runJob, cancelpc, cancelRange>>
  /\ engineIdle

\* if error != nil { panic("Worker initialization error") }; defer worker.Close()
RunCheck ==
  /\ runpc = "check"
  /\ runpc' = IF dworker[runJob].state = "failed" THEN "panicked"
              ELSE stepAfter("check")
  /\ UNCHANGED <<jobSchema, workers, dworker, dataPools, runJob,
                 cancelpc, cancelRange>>
  /\ engineIdle

\* worker.InitIntervalReportingSummary()
RunInitReporting ==
  /\ runpc = "init"
  /\ runpc' = stepAfter("init")
  /\ UNCHANGED <<jobSchema, workers, dworker, dataPools, runJob,
                 cancelpc, cancelRange>>
  /\ engineIdle

\* worker.Work() is called: the job's worker goroutines start
RunWork ==
  /\ runpc = "work"
  /\ dworker' = [dworker EXCEPT ![runJob].state = "working",
                                ![runJob].active = MaxConns]
  /\ runpc' = "working"
  /\ UNCHANGED <<jobSchema, workers, dataPools, runJob, cancelpc, cancelRange>>
  /\ engineIdle

\* one operation of a worker goroutine of job j: it reads the side-table of
\* the job's schema and produces a value of the saved field
JobOperation(j) ==
  /\ dworker[j].state = "working"
  /\ dworker[j].active > 0
  /\ dworker[j].remaining > 0
  /\ ~dworker[j].cancelled
  /\ dworker' = [dworker EXCEPT
       ![j].remaining = @ - 1,
       ![j].saved = @ \cup {SavedValue(j, Cardinality(dworker[j].saved) + 1)},
       ![j].seen = @ \cup dataPools[jobSchema[j]]]
  /\ UNCHANGED <<jobSchema, workers, dataPools, runpc, runJob,
                 cancelpc, cancelRange>>
  /\ engineIdle

\* a worker goroutine of job j is refused by SpawnJob and exits
JobWorkerExit(j) ==
  /\ dworker[j].state = "working"
  /\ dworker[j].active > 0
  /\ dworker[j].remaining = 0 \/ dworker[j].cancelled
  /\ dworker' = [dworker EXCEPT ![j].active = @ - 1]
  /\ UNCHANGED <<jobSchema, workers, dataPools, runpc, runJob,
                 cancelpc, cancelRange>>
  /\ engineIdle

\* worker.Work() returns: every worker goroutine has exited
RunWorkReturns ==
  /\ runpc = "working"
  /\ dworker[runJob].active = 0
  /\ dworker' = [dworker EXCEPT ![runJob].state = "drained"]
  /\ runpc' = stepAfter("work")
  /\ UNCHANGED <<jobSchema, workers, dataPools, runJob, cancelpc, cancelRange>>
  /\ engineIdle

\* worker.Summary()
RunSummary ==
  /\ runpc = "summary"
  /\ dworker' = [dworker EXCEPT ![runJob].summarized = TRUE]
  /\ runpc' = stepAfter("summary")
  /\ UNCHANGED <<jobSchema, workers, dataPools, runJob, cancelpc, cancelRange>>
  /\ engineIdle

\* worker.ExtendCopySavedFieldsToDataPool(): one saved value is copied
RunCopyValue ==
  /\ runpc = "copy"
  /\ \E v \in dworker[runJob].saved \ dataPools[jobSchema[runJob]] :
       dataPools' = [dataPools EXCEPT ![jobSchema[runJob]] = @ \cup {v}]
  /\ UNCHANGED <<jobSchema, workers, dworker, runpc, runJob,
                 cancelpc, cancelRange>>
  /\ engineIdle

\* worker.ExtendCopySavedFieldsToDataPool() returns: nothing is left to copy
RunCopyReturns ==
  /\ runpc = "copy"
  /\ dworker[runJob].saved \subseteq dataPools[jobSchema[runJob]]
  /\ runpc' = stepAfter("copy")
  /\ UNCHANGED <<jobSchema, workers, dworker, dataPools, runJob,
                 cancelpc, cancelRange>>
  /\ engineIdle

\* the deferred worker.Close() runs; the loop goes on to the next job
RunClose ==
  /\ runpc = "close"
  /\ dworker' = [dworker EXCEPT ![runJob].state = "closed"]
  /\ runpc' = IF runJob < MaxJobs THEN stepAfter("close") ELSE "done"
  /\ runJob' = IF runJob < MaxJobs THEN runJob + 1 ELSE runJob
  /\ UNCHANGED <<jobSchema, workers, dataPools, cancelpc, cancelRange>>
  /\ engineIdle

\* --------------------------------------------------------------- Lbot.Cancel
\* Cancel is called: `range l.workers` reads the slice once
CancelStart ==
  /\ cancelpc = "idle"
  /\ cancelpc' = "range"
  /\ cancelRange' = workers
  /\ UNCHANGED <<jobSchema, workers, dworker, dataPools, runpc, runJob>>
  /\ engineIdle

\* worker.Cancel() on the next worker of the range
CancelWorker ==
  /\ cancelpc = "range"
  /\ cancelRange # <<>>
  /\ dworker' = [dworker EXCEPT ![Head(cancelRange)].cancelled = TRUE]
  /\ cancelRange' = Tail(cancelRange)
  /\ UNCHANGED <<jobSchema, workers, dataPools, runpc, runJob, cancelpc>>
  /\ engineIdle

\* variant: Cancel returns without dropping the workers it has cancelled
CancelReturnsKeepsWorkers ==
  /\ cancelpc = "range"
  /\ cancelRange = <<>>
  /\ cancelpc' = "idle"
  /\ UNCHANGED <<jobSchema, workers, dworker, dataPools, runpc, runJob,
                 cancelRange>>
  /\ engineIdle

\* l.workers = nil; return nil
CancelReturns ==
  /\ cancelpc = "range"
  /\ cancelRange = <<>>
  /\ workers' = <<>>
  /\ cancelpc' = "idle"
  /\ UNCHANGED <<jobSchema, dworker, dataPools, runpc, runJob, cancelRange>>
  /\ engineIdle

\* SetConfig, then NewLbot's state; the engine of the first part stays unused
InitLbot ==
  /\ EngineCreated(0, 1, 0, 0)
  /\ jobSchema \in [Jobs -> Schemas]
  /\ LbotIdle
  /\ jobType = Write /\ jobTemplate = "s1" /\ DriverIdle
  /\ CliIdle

NextLbot ==
  \/ RunStart
  \/ \E ok \in BOOLEAN : RunNewWorker(ok)
  \/ RunAppend
  \/ RunCheck
  \/ RunInitReporting
  \/ RunWork
  \/ \E j \in Jobs : JobOperation(j)
  \/ \E j \in Jobs : JobWorkerExit(j)
  \/ RunWorkReturns
  \/ RunSummary
  \/ RunCopyValue
  \/ RunCopyReturns
  \/ RunClose
  \/ CancelStart
  \/ CancelWorker
  \/ CancelReturns

SpecLbot == InitLbot /\ [][NextLbot]_vars

\* ------------------------------------------- driver.NewJobHandler, Handle
othersIdle ==
  UNCHANGED <<engineVars, procVars, histVars, newArgs, cancelCalls, againVars,
              lbotVars, cliVars>>

\* handler := NewJobHandler(cfg, client)
Construct ==
  /\ handler = NoHandler
  /\ handler' = NewJobHandler([Type |-> jobType, template |-> jobTemplate])
  /\ UNCHANGED <<jobType, jobTemplate, clientCalls, returned>>
  /\ othersIdle

\* handler.Handle(): `return h.client.<call>(<provider calls>)`, the client
\* returning the pair res.  Calls beyond MaxOps are not explored.
Handle(res) ==
  /\ handler \notin {NoHandler, Panic}
  /\ Len(clientCalls) < MaxOps
  /\ clientCalls' = Append(clientCalls,
                           [call |-> HandleBody(handler).call,
                            args |-> HandleBody(handler).args,
                            result |-> res])
  /\ returned' = Append(returned, HandleReturn(res))
  /\ UNCHANGED <<jobType, jobTemplate, handler>>
  /\ othersIdle

InitHandler ==
  /\ EngineCreated(0, 1, 0, 0)
  /\ jobSchema = [j \in Jobs |-> "s1"]
  /\ LbotIdle
  /\ jobType \in JobTypes
  /\ jobTemplate \in Schemas
  /\ DriverIdle
  /\ CliIdle

NextHandler ==
  \/ Construct
  \/ \E res \in ClientResults : Handle(res)

SpecHandler == InitHandler /\ [][NextHandler]_vars

\* ------------------------------------------- cli: one command is executed
\* cobra executes the command found on the command line: its
\* PersistentPreRunE if it has one (the root command has none to inherit),
\* then RunE, then, if RunE returned no error, its PersistentPostRun.
cliOnly ==
  UNCHANGED <<engineVars, procVars, histVars, newArgs, cancelCalls, againVars,
              lbotVars, driverVars>>

\* Conn, err = grpc.Dial(agentUri, ...); an error is fatal (log.Fatal)
persistentPreRunE(dialOk) ==
  /\ clipc = "prerun"
  /\ HasPersistentHooks(cliCommand)
  /\ Conn' = IF dialOk THEN "open" ELSE "nil"
  /\ clipc' = IF dialOk THEN "run" ELSE "fatal"
  /\ UNCHANGED <<cliCommand, cliFlags, workloadCall>>
  /\ cliOnly

\* the command has no PersistentPreRunE: cobra goes on to RunE
NoPreRun ==
  /\ clipc = "prerun"
  /\ ~HasPersistentHooks(cliCommand)
  /\ clipc' = "run"
  /\ UNCHANGED <<cliCommand, cliFlags, Conn, workloadCall>>
  /\ cliOnly

\* the workload function the command's RunE calls with Conn
WorkloadFunction(c, flags) ==
  CASE c = "start" -> IF flags.progress THEN "StartWorkloadWithProgress"
                      ELSE "StartWorkload"
    [] c = "stop" -> "StopWorkload"
    [] c = "watch" -> "WatchWorkload"
    [] c = "progress" -> "WorkloadProgress"
    [] c = "config" -> "SetConfigWorkload"

\* configCommand's RunE returns an error before it calls the agent: neither
\* source of configuration was given, or the one given does not parse
ReturnsBeforeCall(c, flags, parseOk) ==
  /\ c = "config"
  /\ (flags.configFile = "" /\ ~flags.stdin) \/ ~parseOk

\* RunE: `return workload.<function>(Conn, request)`
RunE(parseOk, callOk) ==
  /\ clipc = "run"
  /\ IF ReturnsBeforeCall(cliCommand, cliFlags, parseOk)
     THEN /\ clipc' = "error"
          /\ UNCHANGED workloadCall
     ELSE /\ workloadCall' = [fn |-> WorkloadFunction(cliCommand, cliFlags),
                              conn |-> Conn]
          /\ clipc' = IF callOk THEN "postrun" ELSE "error"
  /\ UNCHANGED <<cliCommand, cliFlags, Conn>>
  /\ cliOnly

\* Conn.Close()
persistentPostRun ==
  /\ clipc = "postrun"
  /\ HasPersistentHooks(cliCommand)
  /\ Conn' = "closed"
  /\ clipc' = "exit"
  /\ UNCHANGED <<cliCommand, cliFlags, workloadCall>>
  /\ cliOnly

\* the command has no PersistentPostRun
NoPostRun ==
  /\ clipc = "postrun"
  /\ ~HasPersistentHooks(cliCommand)
  /\ clipc' = "exit"
  /\ UNCHANGED <<cliCommand, cliFlags, Conn, workloadCall>>
  /\ cliOnly

InitCli ==
  /\ EngineCreated(0, 1, 0, 0)
  /\ jobSchema = [j \in Jobs |-> "s1"]
  /\ LbotIdle
  /\ jobType = Write /\ jobTemplate = "s1" /\ DriverIdle
  /\ cliCommand \in RegisteredCommands
  /\ cliFlags \in [progress : BOOLEAN, configFile : {"", "workload.json"},
                    stdin : BOOLEAN]
  /\ CliStarted

NextCli ==
  \/ \E dialOk \in BOOLEAN : persistentPreRunE(dialOk)
  \/ NoPreRun
  \/ \E parseOk, callOk \in BOOLEAN : RunE(parseOk, callOk)
  \/ persistentPostRun
  \/ NoPostRun

SpecCli == InitCli /\ [][NextCli]_vars

\* The Go scheduler runs every runnable goroutine, the clock advances, and
\* (the proviso of the liveness properties) every Take and every operation in
\* flight returns.
Fairness ==
  /\ WF_vars(TormentStart)
  /\ WF_vars(TormentSpawnWorker)
  /\ WF_vars(TormentWorkersStarted)
  /\ WF_vars(TormentWait)
  /\ WF_vars(TormentReport)
  /\ WF_vars(InterruptHandler)
  /\ WF_vars(Tick)
  /\ \A w \in Workers :
       /\ WF_vars(workerSpawnJobTrue(w))
       /\ WF_vars(workerSpawnJobFalse(w))
       /\ WF_vars(workerTake(w))
       /\ WF_vars(workerPerform(w))
       /\ WF_vars(\E ok \in BOOLEAN : performSingleOperation(w, ok))
       /\ WF_vars(workerMarkJobDone(w))

FairSpec == Spec /\ Fairness

\* ================================================================ properties
ConfiguredWorkers == 1..concurrentConnections

AllExited == \A w \in ConfiguredWorkers : pc[w] = "exited"

CancelCalled == handlerpc = "done"

\* C1: a count-bounded pool of K operations, any number of workers, no rate
\* limit, Cancel never called: when every worker has left its loop the
\* completed count is exactly K and SpawnJob has granted exactly K times.
C1_CountBoundedExact ==
  (pool.kind = "deduction" /\ rateLimit = 0 /\ ~CancelCalled /\ AllExited)
    => (GetRequestsDone(pool) = operationsAmount /\ spawned = operationsAmount)

\* a drained count-bounded run with fewer operations than workers
C1_Witness ==
  /\ pool.kind = "deduction" /\ rateLimit = 0 /\ ~CancelCalled /\ AllExited
  /\ operationsAmount = 1 /\ concurrentConnections = 2
  /\ GetRequestsDone(pool) = 1

\* C2: for every policy and interleaving, with or without Cancel: when all
\* workers have exited, completed count = granted SpawnJob calls = operations
\* performed, and that is the total Torment reads after the wait.
C2_ExactAccounting ==
  /\ AllExited => (GetRequestsDone(pool) = spawned /\ spawned = performed)
  /\ mainpc = "done" => (AllExited /\ requestsDoneRead = spawned)

\* a cancelled unbounded run that Torment has reported, two operations done
C2_Witness ==
  /\ mainpc = "done" /\ CancelCalled /\ pool.kind = "nolimit"
  /\ requestsDoneRead = 2 /\ concurrentConnections = 2

\* C3: once Cancel has been called or the limit has been reached, no SpawnJob
\* call is granted any more, and the pool stays refusing.
C3_RefusalIsFinal ==
  [][(CancelCalled \/ LimitReached(pool, now))
       => /\ spawned' = spawned
          /\ ~SpawnJobResult(pool', now')
          /\ (CancelCalled' \/ LimitReached(pool', now'))]_vars

\* a worker is about to call SpawnJob on a cancelled pool that had granted
C3_Witness ==
  /\ CancelCalled /\ pool.kind = "nolimit" /\ spawned > 0
  /\ \E w \in ConfiguredWorkers : pc[w] = "spawn"

\* C4: the wait-group counter is the number of configured workers that have
\* not exited, never negative, and Torment is past the wait only when every
\* worker has exited.
C4_Barrier ==
  /\ wg = Cardinality({w \in ConfiguredWorkers : pc[w] # "exited"})
  /\ wg >= 0
  /\ mainpc \in {"report", "done"} => AllExited

\* the wait has returned in a run of two workers that did work
C4_Witness ==
  mainpc = "report" /\ concurrentConnections = 2 /\ wg = 0 /\ performed > 0

\* C5: after Cancel, with fair scheduling and every Take and operation
\* returning, every worker exits and Torment returns, with the completed
\* count equal to the operations that completed.
C5_CancelDrains ==
  CancelCalled ~>
    (mainpc = "done" /\ AllExited /\ requestsDoneRead = performed)

\* a cancelled unbounded run has drained after doing work
C5_Witness ==
  /\ CancelCalled /\ pool.kind = "nolimit" /\ mainpc = "done"
  /\ requestsDoneRead > 0

\* C6: no operation is performed by a worker whose Take returned after Cancel
\* was called.
C6_NoOperationAfterCancelledTake ==
  \A w \in Workers : pc[w] = "inflight" => ~takeCancelled[w]

\* C7: the completed count never decreases, and under a count-bounded pool of
\* K it is at most K in every state.
C7_CountMonotoneAndBounded ==
  /\ (pool.kind = "deduction" => GetRequestsDone(pool) <= operationsAmount)
  /\ [][/\ GetRequestsDone(pool') >= GetRequestsDone(pool)
        /\ (pool'.kind = "deduction"
              => GetRequestsDone(pool') <= operationsAmount')]_vars

\* a cancelled count-bounded run that has completed operations
C7_Witness ==
  pool.kind = "deduction" /\ CancelCalled /\ GetRequestsDone(pool) >= 1

\* C8: under a duration-bounded pool no worker begins an operation at a time
\* >= start + D.
C8_NoOperationStartsAfterDuration ==
  [][\A w \in Workers :
       (pool.kind = "timer" /\ pc[w] = "perform" /\ pc'[w] = "inflight")
         => now < pool.start + pool.duration]_vars

\* C9: a failed operation is followed by MarkJobDone and the next SpawnJob
\* check of the same worker; it moves no other worker and is counted.
C9_FailureDoesNotStopLoop ==
  [][\A w \in Workers :
       /\ (pc[w] = "inflight" /\ pc'[w] # "inflight" /\ ~lastOk'[w])
            => (pc'[w] = "mark" /\ \A v \in Workers \ {w} : pc'[v] = pc[v])
       /\ (pc[w] = "mark" /\ ~lastOk[w] /\ pc'[w] # "mark")
            => /\ pc'[w] = "spawn"
               /\ GetRequestsDone(pool') = GetRequestsDone(pool) + 1]_vars

\* a worker is about to count a failed operation while another still runs
C9_Witness ==
  \E w, v \in ConfiguredWorkers :
    pc[w] = "mark" /\ ~lastOk[w] /\ pc[v] \in {"take", "perform", "inflight"}

\* C10: for jobs A before B of one Run that use the same schema: values of A
\* are in the shared side-table only once A's Work has returned with no worker
\* goroutine left; when B's worker exists A's copy is complete; B reads only
\* values A (or B's other predecessors) produced, and all of A's.
C10_CopyAfterDrainBeforeNext ==
  \A a \in Jobs :
    /\ (\E v \in dataPools[jobSchema[a]] : v[1] = a)
         => (dworker[a].state \in {"drained", "closed"} /\ dworker[a].active = 0)
    /\ \A b \in Jobs :
         (a < b /\ jobSchema[a] = jobSchema[b] /\ dworker[b].state # "none")
           => /\ dworker[a].state = "closed"
              /\ dworker[a].saved \subseteq dataPools[jobSchema[a]]
              /\ \A v \in dworker[b].seen : v \in dworker[v[1]].saved
              /\ (dworker[b].saved # {}
                    => dworker[a].saved \subseteq dworker[b].seen)

\* job 2 has run operations that read both values job 1 saved
C10_Witness ==
  /\ jobSchema[1] = jobSchema[2]
  /\ Cardinality(dworker[1].saved) = 2
  /\ dworker[2].saved # {}
  /\ dworker[2].seen = dworker[1].saved

\* A step of Lbot.Cancel: the call starts, cancels one worker, or returns.
CancelStep == cancelpc' # cancelpc \/ cancelRange' # cancelRange

RangeOf(q) == {q[i] : i \in 1..Len(q)}

C12_OneCancelPerRun ==
  /\ cancelCalls <= 1
  /\ cancelCalls = 1 <=> handlerpc = "done"
  /\ pool.cancelled <=> cancelCalls = 1
  /\ interruptChan \in {0, 1}
  /\ (handlerpc = "waiting" /\ interruptChan = 1) => ENABLED InterruptHandler
  /\ (handlerpc # "none" /\ interruptChan = 0) => ENABLED Interrupt

\* cancel has been called once and a later interrupt sits in the channel while
\* the run is still draining
C12_Witness ==
  /\ cancelCalls = 1
  /\ interruptChan = 1
  /\ mainpc = "wait"
  /\ \E w \in ConfiguredWorkers : pc[w] # "exited"

\* Torment has returned at least once on this engine.
TormentReturned == requestsDoneRead # -1

\* C13: Drained is terminal. Once Torment has returned, no later call on the
\* engine has a worker goroutine that is started and running, and the count of
\* performed operations and the wait-group counter stay as the first call left
\* them.
C13_DrainedIsTerminal ==
  TormentReturned =>
    /\ \A w \in Workers : pc[w] \in {"unborn", "exited"}
    /\ wg = 0
    /\ performed = requestsDoneRead

\* New was given a non-zero operation count and a non-zero duration.
ConflictingPolicies == newArgs.ops # 0 /\ newArgs.duration # 0

\* C14: an engine asked for with both termination policies is a fatal
\* configuration error at construction: no run ever executes with such a
\* configuration, that is, Torment is never entered, no worker is started and
\* no operation is granted.
C14_ConflictIsFatal ==
  ConflictingPolicies =>
    /\ mainpc = "idle"
    /\ \A w \in Workers : pc[w] = "unborn"
    /\ spawned = 0

\* the variant that belongs to each valid job type
ExpectedVariant(type) ==
  CASE type = Write -> "WriteHandler"
    [] type = BulkWrite -> "BulkWriteHandler"
    [] type = Read -> "ReadHandler"
    [] type = Update -> "UpdateHandler"
    [] OTHER -> "panic"

\* C15: NewJobHandler chooses the variant from the job's type alone: write
\* gives the single-insert handler, bulk write the batch-insert handler, read
\* the single-read handler, update the single-update handler, whatever the
\* template; every other type panics in NewJobHandler, and Handle is never
\* invoked for a job of unknown type.
C15_VariantByTypeAlone ==
  /\ handler # NoHandler => handler.variant = ExpectedVariant(jobType)
  /\ jobType \notin {Write, BulkWrite, Read, Update} =>
       /\ handler \in {NoHandler, Panic}
       /\ clientCalls = <<>>
       /\ returned = <<>>
       /\ ~ENABLED (\E res \in ClientResults : Handle(res))

\* a bulk-write job on the second template got the batch-insert handler and
\* Handle has been called on it
C15_Witness ==
  /\ jobType = BulkWrite
  /\ jobTemplate = "s2"
  /\ handler.variant = "BulkWriteHandler"
  /\ clientCalls # <<>>

\* C16: with a rate limit R > 0 the workers all take from the one limiter
\* that New made for the rate R, and the Take calls granted to all of them
\* together in the current second never exceed R; with the rate limit 0 the
\* limiter is the NoLimit one, and a worker that calls Take returns at once.
C16_SharedRate ==
  /\ rateLimit > 0 =>
       /\ rateLimiter.kind = "simple"
       /\ rateLimiter.granted <= rateLimit
  /\ rateLimit = 0 =>
       /\ rateLimiter.kind = "nolimit"
       /\ \A w \in ConfiguredWorkers : pc[w] = "take" => ENABLED workerTake(w)

\* two workers, rate 1: one has been granted this second's Take, the other
\* waits in Take
C16_Witness ==
  /\ rateLimit = 1
  /\ concurrentConnections = 2
  /\ rateLimiter.granted = 1
  /\ pc[1] = "take"
  /\ pc[2] \in {"perform", "inflight"}
  /\ ~ENABLED workerTake(1)

InLoop == {w \in Workers : pc[w] \in {"spawn", "take", "perform", "inflight", "mark"}}

\* C18: Torment starts exactly the configured number of workers, which is
\* 100 when New was given the count 0: the engine's number is the one given
\* to New or 100, fewer workers than that are started only while the loop
\* that starts them runs, and never more are started or inside the loop.
C18_ExactlyConfiguredWorkers ==
  /\ concurrentConnections = IF newArgs.conns = 0 THEN 100 ELSE newArgs.conns
  /\ Started <= concurrentConnections
  /\ Cardinality(InLoop) <= concurrentConnections
  /\ mainpc \in {"wait", "report", "done"} => Started = concurrentConnections
  /\ mainpc = "idle" => Started = 0

\* an engine of one worker, all started, Torment waiting, with no second
\* worker
C18_Witness ==
  /\ newArgs.conns = 1
  /\ mainpc = "wait"
  /\ InLoop = {1}
  /\ pc[2] = "unborn"

\* C19: a count-bounded workload of 0 operations reports no work at once: an
\* engine asked for with the operation count 0 and no duration grants no
\* SpawnJob, performs no operation and completes none.
C19_ZeroOperationsNoWork ==
  (newArgs.ops = 0 /\ newArgs.duration = 0) =>
    /\ spawned = 0
    /\ performed = 0
    /\ pool.requestsDone = 0
    /\ \A w \in ConfiguredWorkers : pc[w] \in {"unborn", "spawn", "exited"}

\* a worker is created for job b in this step
WorkerCreated(b) == dworker[b].state = "none" /\ dworker'[b].state # "none"

\* C20: a stop request stops the run as a whole. Once Lbot.Cancel has
\* cancelled the worker of a job of this Run, no worker is created for a
\* later job and no later job performs an operation.
C20_StopStopsRun ==
  [][\A a, b \in Jobs :
       (a < b /\ dworker[a].cancelled) =>
         /\ ~WorkerCreated(b)
         /\ dworker'[b].saved = dworker[b].saved]_vars

\* a Cancel call can still reach the worker of job j: the worker is in
\* l.workers, or in what is left of the range of the call in progress
Reachable(j) ==
  \/ j \in RangeOf(workers)
  \/ cancelpc = "range" /\ j \in RangeOf(cancelRange)

\* C21: with Lbot.Cancel running concurrently with Lbot.Run, every worker
\* that is executing Work is cancelled or can still be reached by a Cancel
\* call: no interleaving of Run's append with Cancel's range and clearing
\* leaves a running worker outside l.workers and uncancelled.
C21_RunningWorkerReachable ==
  \A j \in Jobs :
    dworker[j].state = "working" => (dworker[j].cancelled \/ Reachable(j))

\* how far a worker is on the way from Take to its exit, the loop condition
\* coming last
Progress(at) ==
  CASE at = "unborn"   -> 0
    [] at = "take"     -> 1
    [] at = "perform"  -> 2
    [] at = "inflight" -> 3
    [] at = "mark"     -> 4
    [] at = "spawn"    -> 5
    [] at = "exited"   -> 6

\* C22: cancellation affects only future loop iterations. Once Cancel has
\* been called no worker goes back in its loop, so each worker begins at
\* most one further operation, the one whose SpawnJob it had passed; an
\* operation in flight is not interrupted: it returns, and MarkJobDone counts
\* it.
C22_CancelOnlyFutureIterations ==
  [][pool.cancelled =>
       \A w \in ConfiguredWorkers :
         /\ Progress(pc'[w]) >= Progress(pc[w])
         /\ (pc[w] = "inflight" /\ pc'[w] # "inflight") => pc'[w] = "mark"
         /\ (pc[w] = "mark" /\ pc'[w] # "mark") =>
              pool'.requestsDone = pool.requestsDone + 1]_vars

\* Cancel has been called, one worker's operation was in flight before and
\* still is, and the other worker has begun its one further operation
C22_Witness ==
  /\ pool.cancelled
  /\ concurrentConnections = 2
  /\ \E w, v \in ConfiguredWorkers :
       /\ pc[w] = "inflight" /\ ~takeCancelled[w]
       /\ pc[v] = "inflight" /\ takeCancelled[v]

\* What the engine has tallied of the outcomes of its operations.  The struct
\* mongoload has no field for successes or failures, worker drops the value
\* performSingleOperation returns, and Torment reports the completed count
\* only: nothing is ever tallied.
Tallies == [successes |-> 0, failures |-> 0]

\* no operation is between its dispatch and its MarkJobDone
NoneInFlight == \A w \in ConfiguredWorkers : pc[w] \notin {"inflight", "mark"}

\* C23: the engine keeps a tally of the successes and one of the failures
\* alongside the completed count, and whenever no operation is in flight the
\* two tallies add up to the completed count.
C23_TalliesAddUp ==
  NoneInFlight => Tallies.successes + Tallies.failures = pool.requestsDone

\* the saved values of job j are all in the side-table of its schema
Copied(j) == dworker[j].saved \subseteq dataPools[jobSchema[j]]

\* C24: in Lbot.Run the jobs execute strictly one after another in
\* configuration order: a job has a worker only when every earlier job's
\* worker is closed, and only the current job's worker is open. For each job
\* the steps come in the order worker created, Work, Summary, copy of the
\* saved fields, Close: Summary is made of a drained worker, values are
\* copied only after Summary, and a worker is closed only after its
\* statistics were computed and its values copied.
C24_JobsInOrder ==
  /\ [](\A a, b \in Jobs :
         (a < b /\ dworker[b].state # "none") => dworker[a].state = "closed")
  /\ [](\A j \in Jobs :
         /\ dworker[j].state \notin {"none", "closed"} => j = runJob
         /\ dworker[j].summarized => dworker[j].state \in {"drained", "closed"}
         /\ dworker[j].state = "closed" => (dworker[j].summarized /\ Copied(j)))
  /\ [][dataPools' # dataPools =>
         (dworker[runJob].summarized /\ dworker[runJob].state = "drained")]_vars
  /\ [][\A j \in Jobs :
         dworker'[j].state # dworker[j].state =>
           <<dworker[j].state, dworker'[j].state>> \in
             {<<"none", "created">>, <<"none", "failed">>,
              <<"created", "working">>, <<"working", "drained">>,
              <<"drained", "closed">>}]_vars

\* the second job's worker executes Work; the first job's worker was
\* summarized, its values were copied and it is closed
C24_Witness ==
  /\ dworker[2].state = "working"
  /\ dworker[1].state = "closed"
  /\ dworker[1].summarized
  /\ dworker[1].saved # {}
  /\ Copied(1)

\* the client call that matches each variant
MatchingCall(variant) ==
  CASE variant = "WriteHandler" -> "InsertOne"
    [] variant = "BulkWriteHandler" -> "InsertMany"
    [] variant = "ReadHandler" -> "ReadOne"
    [] variant = "UpdateHandler" -> "UpdateOne"

\* Every call of Handle made one client call, of the kind that matches the
\* variant, a batch being of 100, and returned the pair the client gave,
\* failures included: one call, no second attempt.
OneMatchingCallEach ==
  /\ Len(clientCalls) = Len(returned)
  /\ \A i \in 1..Len(clientCalls) :
       /\ clientCalls[i].call = MatchingCall(handler.variant)
       /\ returned[i] = clientCalls[i].result
       /\ clientCalls[i].call = "InsertMany" =>
            clientCalls[i].args = << <<"GetBatch", 100>> >>

\* C25 (as stated): each call of Handle, for each of the four variants, makes
\* exactly one client call of the matching kind, fed by one DataProvider
\* call, returns that call's pair unchanged and never retries.
C25_OneProviderCallEach ==
  /\ OneMatchingCallEach
  /\ \A i \in 1..Len(clientCalls) : Len(clientCalls[i].args) = 1

\* C25 (amended): as stated, except that the update variant feeds its one
\* UpdateOne call with two DataProvider calls, GetFilter and GetSingleItem;
\* the other three variants use one.
C25_OneClientCallEach ==
  /\ OneMatchingCallEach
  /\ \A i \in 1..Len(clientCalls) :
       Len(clientCalls[i].args) =
         IF clientCalls[i].call = "UpdateOne" THEN 2 ELSE 1
  /\ \A i \in 1..Len(clientCalls) :
       clientCalls[i].call = "UpdateOne" =>
         clientCalls[i].args = << <<"GetFilter">>, <<"GetSingleItem">> >>

\* an update handler was called twice: the first client call failed with an
\* error, which Handle returned, and the second call is a new Handle
C25_Witness ==
  /\ handler.variant = "UpdateHandler"
  /\ Len(clientCalls) = 2
  /\ clientCalls[1].result = <<FALSE, "error">>
  /\ returned[1] = <<FALSE, "error">>
  /\ returned[2] = <<TRUE, "nil">>

\* C26: every registered workload command that talks to the agent opens the
\* gRPC connection before its RunE uses it and closes it afterwards: the Conn
\* passed to a workload call is the open connection, never the unset (nil)
\* one, and once the command has run to its end the connection is closed.
C26_ConnOpenWhenUsed ==
  /\ workloadCall # NoCall => workloadCall.conn = "open"
  /\ (clipc = "exit" /\ workloadCall # NoCall) => Conn = "closed"

====
